---- MODULE Spec2Model ----
(***************************************************************************)
(* OversightBot (src/bot.py): the requests table, the oversighter and      *)
(* ping-subscriber tables, the /oversight, /claim, /respond and /pending   *)
(* handlers, the Claim button, the "!OversightBot addos/removeos/ping"     *)
(* message commands and the reminder loop, as coroutines that interleave   *)
(* at their await points.  The SQLite                                      *)
(* file is modelled by its committed contents; the reminder loop's open    *)
(* transaction is the part of rem that is not yet committed.               *)
(***************************************************************************)
EXTENDS Integers, Sequences, FiniteSets, TLC

(* ------------------------------ bounds --------------------------------- *)
\* rows the requests table may hold
MaxTickets == 2
\* clock ticks of one run
MaxTicks == 3
\* seconds the wall clock advances per tick
TickSeconds == 60
\* concurrent /oversight handlers
MaxSubmitSlots == 2

(* ------------------------- program constants --------------------------- *)
\* COOLDOWN_SECONDS (environment, bot.py:181), here configured to 60
COOLDOWN_SECONDS == 60
\* REMINDER_MINUTES (environment, bot.py:185), here configured to 1
REMINDER_MINUTES == 1
\* asyncio.sleep(60) of the reminder loop
SLEEP_SECONDS == 60
ID_OFFSET == 1000
\* SQL NULL / Python None; user ids, row ids and timestamps are not negative
NULL == -1

\* Discord identities: 1 is a bot admin, 2 and 3 hold the OVERSIGHT_ROLE_ID
\* role, 4 holds nothing and may be added to the oversighters table
Users == 1..4
BOT_ADMINS == {1}
RoleHolders == {2, 3}
\* local UTC offset of the host in seconds (east positive)
TzOffsets == {0, -3600}

VARIABLES
    requests,      \* committed rows of table requests, indexed by id
    oversighters,  \* committed rows of table oversighters
    ping_subs,     \* committed rows of table ping_subscribers
    clock,         \* true UTC seconds since the start of the run
    tz,            \* the host's UTC offset
    closed,        \* bot.is_closed()
    sub,           \* the /oversight handlers in flight, by slot
    cl,            \* the command, button or message handler of each user
    rem,           \* the reminder_loop task
    hist           \* history: what the callbacks and the store calls did

vars == <<requests, oversighters, ping_subs, clock, tz, closed, sub, cl, rem, hist>>

SubmitSlots == 1..MaxSubmitSlots
RowIds == 1..MaxTickets

(* --------------------------- pure helpers ------------------------------ *)
\* a range test that lets the offset itself through
ext_id_valid_AtOffset(ext_id) == ext_id - ID_OFFSET >= 0

\* ext_id_to_row raises ValueError unless this holds
ext_id_valid(ext_id) == ext_id - ID_OFFSET > 0

ext_id_to_row(ext_id) == ext_id - ID_OFFSET

row_to_ext_id(rowid) == rowid + ID_OFFSET

\* int(datetime.now(timezone.utc).timestamp())
now_utc == clock

\* int(datetime.utcnow().timestamp()): the naive UTC wall time read as local time
now_naive == clock - tz

RECURSIVE SortAsc(_)
\* ORDER BY id
SortAsc(S) ==
    IF S = {} THEN <<>>
    ELSE LET m == CHOOSE x \in S : \A y \in S : x <= y
         IN <<m>> \o SortAsc(S \ {m})

Range(s) == {s[i] : i \in DOMAIN s}

(* ------------------------- authorization ------------------------------- *)
is_oversighter(user_id) == user_id \in oversighters

\* the permission test letting everyone through
oversighter_check_Anyone(user_id) == TRUE

\* the predicate of oversighter_check: role fast path, then the table
oversighter_check(user_id) == user_id \in RoleHolders \/ is_oversighter(user_id)

(* --------------------------- the store --------------------------------- *)
\* a row whose claimed_at defaults to the time of the INSERT
NewRow_ClaimedAtNow(author_id, now_ts) ==
    [author_id |-> author_id, created_at |-> now_ts,
     claimed_by |-> NULL, claimed_at |-> now_ts, reminded_at |-> NULL]

\* INSERT INTO requests (author_id, text, created_at): the other columns
\* have no default
NewRow(author_id, now_ts) ==
    [author_id |-> author_id, created_at |-> now_ts,
     claimed_by |-> NULL, claimed_at |-> NULL, reminded_at |-> NULL]

\* the window test with the boundary second left out
RecentWhere_Strict(row, author_id, window_ts) ==
    row.author_id = author_id /\ row.created_at > window_ts

\* WHERE author_id = ? AND created_at >= ?
RecentWhere(row, author_id, window_ts) ==
    row.author_id = author_id /\ row.created_at >= window_ts

recent_request_count(reqs, author_id, now_ts) ==
    LET window_ts == now_ts - COOLDOWN_SECONDS
    IN Cardinality({i \in DOMAIN reqs : RecentWhere(reqs[i], author_id, window_ts)})

\* the exemption with the Oversighter lookup left out
Exempt_AdminsOnly(author_id) == author_id \in BOT_ADMINS

\* the rate-limit exemption of create_request
Exempt(author_id) == author_id \in BOT_ADMINS \/ is_oversighter(author_id)

RateLimited(reqs, author_id, now_ts) ==
    recent_request_count(reqs, author_id, now_ts) >= 2

\* the UPDATE without its claimed_by IS NULL condition
ClaimWhere_AnyRow(reqs, row_id) == row_id \in DOMAIN reqs

\* an UPDATE that also asks for reminded_at IS NULL
ClaimWhere_Unreminded(reqs, row_id) ==
    /\ row_id \in DOMAIN reqs
    /\ reqs[row_id].claimed_by = NULL
    /\ reqs[row_id].reminded_at = NULL

\* WHERE id = ? AND claimed_by IS NULL
ClaimWhere(reqs, row_id) ==
    row_id \in DOMAIN reqs /\ reqs[row_id].claimed_by = NULL

\* cur.rowcount of the UPDATE of claim_request
ClaimRowcount(reqs, row_id) == IF ClaimWhere(reqs, row_id) THEN 1 ELSE 0

\* an UPDATE that sets the claimer on the row whoever holds it
ClaimUpdate_Overwrite(reqs, row_id, claimer_id, now_ts) ==
    [i \in DOMAIN reqs |->
        IF i = row_id
        THEN [reqs[i] EXCEPT !.claimed_by = claimer_id, !.claimed_at = now_ts]
        ELSE reqs[i]]

\* the table after the UPDATE of claim_request
ClaimUpdate(reqs, row_id, claimer_id, now_ts) ==
    [i \in DOMAIN reqs |->
        IF i = row_id /\ ClaimWhere(reqs, row_id)
        THEN [reqs[i] EXCEPT !.claimed_by = claimer_id, !.claimed_at = now_ts]
        ELSE reqs[i]]

\* the SELECT of list_pending without its WHERE
PendingWhere_All(row) == TRUE

\* WHERE claimed_by IS NULL
PendingWhere(row) == row.claimed_by = NULL

list_pending(reqs) ==
    LET ids == SortAsc({i \in DOMAIN reqs : PendingWhere(reqs[i])})
    IN [k \in DOMAIN ids |-> row_to_ext_id(ids[k])]

\* the SELECT of the pass without its reminded_at IS NULL condition
ReminderWhere_IgnoreReminded(row, cutoff_ts) ==
    /\ row.claimed_by = NULL
    /\ row.created_at < cutoff_ts

\* WHERE claimed_by IS NULL AND created_at < ? AND (reminded_at IS NULL)
ReminderWhere(row, cutoff_ts) ==
    /\ row.claimed_by = NULL
    /\ row.created_at < cutoff_ts
    /\ row.reminded_at = NULL

\* fetch_request: the row, or None
NoRow == [author_id |-> NULL, created_at |-> NULL,
          claimed_by |-> NULL, claimed_at |-> NULL, reminded_at |-> NULL]

fetch_request(reqs, row_id) == IF row_id \in DOMAIN reqs THEN reqs[row_id] ELSE NoRow

\* SQLite's write lock: held by the reminder loop from its first UPDATE of a
\* pass to the commit; another connection's INSERT or UPDATE waits for it
WriteLockFree == rem.txn = <<>>

(* ------------------------------ Init ----------------------------------- *)
\* a handler's pc is "reply" while it sends the reply named by its out
\* ticket is the id create_request returned (NULL before its INSERT)
IdleSubmit == [pc |-> "idle", user |-> NULL, exempt |-> FALSE, cnt |-> -1, out |-> "none",
               ticket |-> NULL]

\* cmd names the handler; ids is the list list_pending returned to it; todo
\* is what its for loop has still to visit; first is the flag _claim_one is
\* called with; wrote tells whether the call has run a writing statement
\* (INSERT, UPDATE, DELETE) and changed whether one of them changed a table
IdleClaim == [pc |-> "idle", cmd |-> "none", row |-> NULL, req |-> NoRow,
              success |-> FALSE, out |-> "none", claimant |-> NULL, ids |-> <<>>,
              todo |-> <<>>, first |-> TRUE, wrote |-> FALSE, changed |-> FALSE]

\* rows a store call may name: the table's rows and one id past them
StoreRows == 1..(MaxTickets + 1)

\* calls of claim_request made directly on the store
MaxStoreCalls == 3

Init ==
    /\ requests = <<>>
    /\ oversighters = {}
    /\ ping_subs = {}
    /\ clock = 0
    /\ tz \in TzOffsets
    /\ closed = FALSE
    /\ sub = [s \in SubmitSlots |-> IdleSubmit]
    /\ cl = [u \in Users |-> IdleClaim]
    /\ rem = [pc |-> "scan", rows |-> <<>>, txn |-> <<>>, wake |-> 0, err |-> "none"]
    /\ hist = [delivered |-> [r \in RowIds |-> 0],
               told      |-> [r \in RowIds |-> {}],
               notified  |-> [r \in RowIds |-> {}],
               pinged    |-> {},
               crLog     |-> <<>>]

(* ------------------------------ clock ---------------------------------- *)
Tick ==
    /\ clock + TickSeconds <= MaxTicks * TickSeconds
    /\ clock' = clock + TickSeconds
    /\ UNCHANGED <<requests, oversighters, ping_subs, tz, closed, sub, cl, rem, hist>>

(* ------------------- /oversight -> create_request ---------------------- *)
\* the handler is entered and create_request evaluates the exemption
SubmitCheck(s, u) ==
    /\ ~closed
    /\ sub[s].pc = "idle"
    /\ sub' = [sub EXCEPT ![s] =
                 [IdleSubmit EXCEPT !.pc = IF Exempt(u) THEN "insert" ELSE "count",
                                    !.user = u, !.exempt = Exempt(u)]]
    /\ UNCHANGED <<requests, oversighters, ping_subs, clock, tz, closed, cl, rem, hist>>

\* a create_request that writes its row before it counts
SubmitCount_InsertFirst(s) ==
    /\ sub[s].pc = "count"
    /\ WriteLockFree
    /\ Len(requests) < MaxTickets
    /\ requests' = Append(requests, [author_id |-> sub[s].user, created_at |-> now_utc,
                                     claimed_by |-> NULL, claimed_at |-> NULL,
                                     reminded_at |-> NULL])
    /\ sub' = [sub EXCEPT
                 ![s].cnt = recent_request_count(requests', sub[s].user, now_utc),
                 ![s].pc = "reply",
                 ![s].out = IF RateLimited(requests', sub[s].user, now_utc)
                            THEN "rate_limit_exceeded" ELSE "request_filed"]
    /\ UNCHANGED <<oversighters, ping_subs, clock, tz, closed, cl, rem, hist>>

\* recent_request_count, and the RuntimeError that /oversight turns into
\* the rate_limit_exceeded reply
SubmitCount(s) ==
    /\ sub[s].pc = "count"
    /\ sub' = [sub EXCEPT
                 ![s].cnt = recent_request_count(requests, sub[s].user, now_utc),
                 ![s].pc = IF RateLimited(requests, sub[s].user, now_utc)
                           THEN "reply" ELSE "insert",
                 ![s].out = IF RateLimited(requests, sub[s].user, now_utc)
                            THEN "rate_limit_exceeded" ELSE "none"]
    /\ UNCHANGED <<requests, oversighters, ping_subs, clock, tz, closed, cl, rem, hist>>

\* the id a free id column would hand out again: the last one in use
NextRowId_Reuse(reqs) == IF Len(reqs) = 0 THEN 1 ELSE Len(reqs)

\* id INTEGER PRIMARY KEY AUTOINCREMENT: one past the largest id ever used
\* (no statement of the program deletes a row of requests)
NextRowId(reqs) == Len(reqs) + 1

\* the table after INSERT INTO requests of row under id rowid
InsertRow(reqs, rowid, row) ==
    [i \in DOMAIN reqs \cup {rowid} |-> IF i = rowid THEN row ELSE reqs[i]]

\* the INSERT and its commit while the table holds fewer than cap rows;
\* create_request returns row_to_ext_id(cur.lastrowid)
SubmitInsertUpTo(s, cap) ==
    /\ sub[s].pc = "insert"
    /\ WriteLockFree
    /\ Len(requests) < cap
    /\ requests' = InsertRow(requests, NextRowId(requests), NewRow(sub[s].user, now_utc))
    /\ sub' = [sub EXCEPT ![s].pc = "reply", ![s].out = "request_filed",
                          ![s].ticket = row_to_ext_id(NextRowId(requests))]
    /\ UNCHANGED <<oversighters, ping_subs, clock, tz, closed, cl, rem, hist>>

SubmitInsert(s) == SubmitInsertUpTo(s, MaxTickets)

\* interaction.followup.send returns and the handler ends; after
\* request_filed the request is posted to the restricted channel with a
\* mention of every row of get_ping_subs() (hist.pinged: the mentions of the
\* latest post)
SubmitReturn(s) ==
    /\ sub[s].pc = "reply"
    /\ sub' = [sub EXCEPT ![s] = IdleSubmit]
    /\ hist' = IF sub[s].out = "request_filed"
               THEN [hist EXCEPT !.pinged = ping_subs]
               ELSE hist
    /\ UNCHANGED <<requests, oversighters, ping_subs, clock, tz, closed, cl, rem>>

(* ------------------ !OversightBot addos / removeos --------------------- *)
add_oversighter(set, user_id) == set \cup {user_id}

remove_oversighter(set, user_id) == set \ {user_id}

AddOs(a, target) ==
    /\ ~closed
    /\ a \in BOT_ADMINS
    /\ WriteLockFree
    /\ oversighters' = add_oversighter(oversighters, target)
    /\ UNCHANGED <<requests, ping_subs, clock, tz, closed, sub, cl, rem, hist>>

RemoveOs(a, target) ==
    /\ ~closed
    /\ a \in BOT_ADMINS
    /\ WriteLockFree
    /\ oversighters' = remove_oversighter(oversighters, target)
    /\ UNCHANGED <<requests, ping_subs, clock, tz, closed, sub, cl, rem, hist>>

(* ------------------------------ /pending ------------------------------- *)
\* oversighter_check and ids = await list_pending()
Pending(u) ==
    /\ ~closed
    /\ cl[u].pc = "idle"
    /\ cl' = [cl EXCEPT ![u] =
                IF oversighter_check(u)
                THEN [IdleClaim EXCEPT !.cmd = "pending", !.pc = "reply",
                                       !.out = "unclaimed_requests",
                                       !.ids = list_pending(requests)]
                ELSE [IdleClaim EXCEPT !.cmd = "pending", !.pc = "reply",
                                       !.out = "not_oversighter"]]
    /\ UNCHANGED <<requests, oversighters, ping_subs, clock, tz, closed, sub, rem, hist>>

(* -------------------------------- /claim ------------------------------- *)
\* external ids a reviewer may type: one at the offset (out of range) and
\* the ids of the rows the table may hold
ClaimIds == {ID_OFFSET} \cup {row_to_ext_id(r) : r \in RowIds}

\* oversighter_check, then the single-ID path up to the call of _claim_one
ClaimStart(u, request_id) ==
    /\ ~closed
    /\ cl[u].pc = "idle"
    /\ cl' = [cl EXCEPT ![u] =
                IF ~oversighter_check(u)
                THEN [IdleClaim EXCEPT !.cmd = "claim", !.pc = "reply",
                                       !.out = "not_oversighter"]
                ELSE IF ~ext_id_valid(request_id)
                THEN [IdleClaim EXCEPT !.cmd = "claim", !.pc = "reply", !.out = "invalid_id"]
                ELSE [IdleClaim EXCEPT !.cmd = "claim", !.pc = "fetch",
                                       !.row = ext_id_to_row(request_id)]]
    /\ UNCHANGED <<requests, oversighters, ping_subs, clock, tz, closed, sub, rem, hist>>

\* the bulk path: oversighter_check, pending = await list_pending(), the
\* no_unclaimed reply or the claiming_multiple note and the first _claim_one
ClaimStartAll(u) ==
    /\ ~closed
    /\ cl[u].pc = "idle"
    /\ LET pending == list_pending(requests)
       IN cl' = [cl EXCEPT ![u] =
                   IF ~oversighter_check(u)
                   THEN [IdleClaim EXCEPT !.cmd = "claim_all", !.pc = "reply",
                                          !.out = "not_oversighter"]
                   ELSE IF pending = <<>>
                   THEN [IdleClaim EXCEPT !.cmd = "claim_all", !.pc = "reply",
                                          !.out = "no_unclaimed"]
                   ELSE [IdleClaim EXCEPT !.cmd = "claim_all", !.pc = "fetch",
                                          !.ids = pending, !.todo = Tail(pending),
                                          !.row = ext_id_to_row(Head(pending))]]
    /\ UNCHANGED <<requests, oversighters, ping_subs, clock, tz, closed, sub, rem, hist>>

\* _claim_one: req = await fetch_request(_row_id); an unknown row and a row
\* already claimed are reported when first is set and passed over in
\* silence otherwise (the claimant is the snapshot's claimed_by)
ClaimFetch(u) ==
    /\ cl[u].pc = "fetch"
    /\ LET req == fetch_request(requests, cl[u].row)
       IN cl' = [cl EXCEPT ![u] =
                   IF req = NoRow
                   THEN [@ EXCEPT !.pc = "reply",
                                  !.out = IF cl[u].first THEN "unknown_request_id"
                                          ELSE "skipped"]
                   ELSE IF req.claimed_by = NULL
                   THEN [@ EXCEPT !.pc = "claim", !.req = req]
                   ELSE [@ EXCEPT !.pc = "reply", !.req = req,
                                  !.out = IF cl[u].first THEN "already_claimed"
                                          ELSE "skipped",
                                  !.claimant = req.claimed_by]]
    /\ UNCHANGED <<requests, oversighters, ping_subs, clock, tz, closed, sub, rem, hist>>

\* what _claim_one tells the caller after claim_request, given the req it
\* holds: "already claimed" needs req["claimed_by"] set and success false
ClaimReply(req, success) ==
    IF req.claimed_by # NULL /\ ~success THEN "already_claimed" ELSE "claimed"

\* success = await claim_request(_row_id, interaction.user.id); when it is
\* false the req fetched before is kept and the reply is computed from it;
\* after the "claimed" reply the author of req is sent
\* request_claimed_notification (hist.notified names the claimers whose
\* command sent it)
ClaimTry(u) ==
    /\ cl[u].pc = "claim"
    /\ WriteLockFree
    /\ LET ok == ClaimRowcount(requests, cl[u].row) = 1
           reply == ClaimReply(cl[u].req, ok)
       IN /\ requests' = ClaimUpdate(requests, cl[u].row, u, now_utc)
          /\ cl' = [cl EXCEPT ![u] =
                      IF ok
                      THEN [@ EXCEPT !.pc = "refetch", !.success = TRUE,
                                     !.wrote = TRUE, !.changed = TRUE]
                      ELSE [@ EXCEPT !.pc = "reply", !.out = reply, !.wrote = TRUE,
                                     !.claimant = cl[u].req.claimed_by]]
          /\ hist' = IF ~ok /\ reply = "claimed"
                     THEN [hist EXCEPT !.told[cl[u].row] = @ \cup {u},
                                       !.notified[cl[u].row] =
                                           IF cl[u].req.author_id # NULL
                                           THEN @ \cup {u} ELSE @]
                     ELSE hist
    /\ UNCHANGED <<oversighters, ping_subs, clock, tz, closed, sub, rem>>

\* req = await fetch_request(_row_id) after a successful claim, and the reply
ClaimRefetch(u) ==
    /\ cl[u].pc = "refetch"
    /\ LET req == fetch_request(requests, cl[u].row)
           reply == ClaimReply(req, cl[u].success)
       IN /\ cl' = [cl EXCEPT ![u] =
                      [@ EXCEPT !.pc = "reply", !.req = req, !.out = reply,
                                !.claimant = req.claimed_by]]
          /\ hist' = IF reply = "claimed"
                     THEN [hist EXCEPT !.told[cl[u].row] = @ \cup {u},
                                       !.notified[cl[u].row] =
                                           IF req.author_id # NULL
                                           THEN @ \cup {u} ELSE @]
                     ELSE hist
    /\ UNCHANGED <<requests, oversighters, ping_subs, clock, tz, closed, sub, rem>>

\* a for loop that ends at the first id it could not claim
ClaimNext_StopAtSkip(u) ==
    /\ cl[u].pc = "reply"
    /\ cl[u].todo # <<>>
    /\ cl' = [cl EXCEPT ![u] =
                IF cl[u].success
                THEN [@ EXCEPT !.pc = "fetch", !.row = ext_id_to_row(Head(cl[u].todo)),
                               !.todo = Tail(@), !.first = FALSE, !.req = NoRow,
                               !.success = FALSE, !.out = "none", !.claimant = NULL]
                ELSE [@ EXCEPT !.todo = <<>>]]
    /\ UNCHANGED <<requests, oversighters, ping_subs, clock, tz, closed, sub, rem, hist>>

\* the bulk path's for loop: _claim_one returned and is called with the next
\* id of the list, first being idx == 1
ClaimNext(u) ==
    /\ cl[u].pc = "reply"
    /\ cl[u].todo # <<>>
    /\ cl' = [cl EXCEPT ![u] =
                [@ EXCEPT !.pc = "fetch", !.row = ext_id_to_row(Head(cl[u].todo)),
                          !.todo = Tail(@), !.first = FALSE, !.req = NoRow,
                          !.success = FALSE, !.out = "none", !.claimant = NULL]]
    /\ UNCHANGED <<requests, oversighters, ping_subs, clock, tz, closed, sub, rem, hist>>

\* the reply is sent and the handler ends
ClaimReturn(u) ==
    /\ cl[u].pc = "reply"
    /\ cl[u].todo = <<>>
    /\ cl' = [cl EXCEPT ![u] = IdleClaim]
    /\ UNCHANGED <<requests, oversighters, ping_subs, clock, tz, closed, sub, rem, hist>>

\* RequestView._claim_cb, the Claim button under the posted request of an
\* existing row: the authorization, then claim_request, the reply and the
\* edit of the posted message; nothing is sent to the author
ButtonClaim(u, row_id) ==
    /\ ~closed
    /\ cl[u].pc = "idle"
    /\ row_id \in DOMAIN requests
    /\ oversighter_check(u) => WriteLockFree
    /\ IF ~oversighter_check(u)
       THEN /\ cl' = [cl EXCEPT ![u] =
                        [IdleClaim EXCEPT !.cmd = "button", !.pc = "reply",
                                          !.out = "not_oversighter"]]
            /\ UNCHANGED <<requests, hist>>
       ELSE LET ok == ClaimRowcount(requests, row_id) = 1
            IN /\ requests' = ClaimUpdate(requests, row_id, u, now_utc)
               /\ cl' = [cl EXCEPT ![u] =
                           [IdleClaim EXCEPT !.cmd = "button", !.pc = "reply",
                               !.row = row_id, !.success = ok, !.wrote = TRUE,
                               !.changed = ok,
                               !.out = IF ok THEN "claimed" ELSE "already_claimed"]]
               /\ hist' = IF ok THEN [hist EXCEPT !.told[row_id] = @ \cup {u}] ELSE hist
    /\ UNCHANGED <<oversighters, ping_subs, clock, tz, closed, sub, rem>>

(* ------------------------------ /respond ------------------------------- *)
\* a respond that also takes the ticket for the responder
Respond_Claims(u, request_id) ==
    /\ ~closed
    /\ cl[u].pc = "idle"
    /\ oversighter_check(u)
    /\ ext_id_to_row(request_id) \in DOMAIN requests
    /\ requests' = [requests EXCEPT ![ext_id_to_row(request_id)].claimed_by = u,
                                    ![ext_id_to_row(request_id)].claimed_at = now_utc]
    /\ cl' = [cl EXCEPT ![u] =
                [IdleClaim EXCEPT !.cmd = "respond", !.pc = "reply",
                                  !.row = ext_id_to_row(request_id),
                                  !.out = "response_sent"]]
    /\ UNCHANGED <<oversighters, ping_subs, clock, tz, closed, sub, rem, hist>>

\* oversighter_check (its CheckFailure carries not_oversighter), then
\* _send_oversight_response: ext_id_to_row, fetch_request, the message to the
\* author and the note in the restricted channel; the Respond button's modal
\* ends in the same helper
Respond(u, request_id) ==
    /\ ~closed
    /\ cl[u].pc = "idle"
    /\ cl' = [cl EXCEPT ![u] =
                IF ~oversighter_check(u)
                THEN [IdleClaim EXCEPT !.cmd = "respond", !.pc = "reply",
                                       !.out = "not_oversighter"]
                ELSE IF ~ext_id_valid(request_id)
                THEN [IdleClaim EXCEPT !.cmd = "respond", !.pc = "reply",
                                       !.out = "invalid_id"]
                ELSE IF fetch_request(requests, ext_id_to_row(request_id)) = NoRow
                THEN [IdleClaim EXCEPT !.cmd = "respond", !.pc = "reply",
                                       !.row = ext_id_to_row(request_id),
                                       !.out = "unknown_request_id"]
                ELSE [IdleClaim EXCEPT !.cmd = "respond", !.pc = "reply",
                                       !.row = ext_id_to_row(request_id),
                                       !.req = fetch_request(requests,
                                                             ext_id_to_row(request_id)),
                                       !.out = "response_sent"]]
    /\ UNCHANGED <<requests, oversighters, ping_subs, clock, tz, closed, sub, rem, hist>>

(* ------------------- on_message: "!OversightBot ..." ------------------- *)
\* the lists of mentions a message may carry
Mentions == {<<>>, <<4>>, <<2, 4>>}

\* "!oversightbot addos" without its BOT_ADMINS test
MsgAddOs_NoAdminTest(u, mentions) ==
    /\ ~closed
    /\ cl[u].pc = "idle"
    /\ cl' = [cl EXCEPT ![u] =
                IF mentions = <<>>
                THEN [IdleClaim EXCEPT !.cmd = "addos", !.pc = "reply",
                                       !.out = "usage_addos"]
                ELSE [IdleClaim EXCEPT !.cmd = "addos", !.pc = "loop", !.todo = mentions]]
    /\ UNCHANGED <<requests, oversighters, ping_subs, clock, tz, closed, sub, rem, hist>>

\* "!oversightbot addos": the BOT_ADMINS test, the usage reply for a message
\* without mentions, else the for loop over message.mentions starts
MsgAddOs(u, mentions) ==
    /\ ~closed
    /\ cl[u].pc = "idle"
    /\ cl' = [cl EXCEPT ![u] =
                IF u \notin BOT_ADMINS
                THEN [IdleClaim EXCEPT !.cmd = "addos", !.pc = "reply",
                                       !.out = "only_bot_admins_add"]
                ELSE IF mentions = <<>>
                THEN [IdleClaim EXCEPT !.cmd = "addos", !.pc = "reply",
                                       !.out = "usage_addos"]
                ELSE [IdleClaim EXCEPT !.cmd = "addos", !.pc = "loop", !.todo = mentions]]
    /\ UNCHANGED <<requests, oversighters, ping_subs, clock, tz, closed, sub, rem, hist>>

\* "!oversightbot removeos", in the same way
MsgRemoveOs(u, mentions) ==
    /\ ~closed
    /\ cl[u].pc = "idle"
    /\ cl' = [cl EXCEPT ![u] =
                IF u \notin BOT_ADMINS
                THEN [IdleClaim EXCEPT !.cmd = "removeos", !.pc = "reply",
                                       !.out = "only_bot_admins_remove"]
                ELSE IF mentions = <<>>
                THEN [IdleClaim EXCEPT !.cmd = "removeos", !.pc = "reply",
                                       !.out = "usage_removeos"]
                ELSE [IdleClaim EXCEPT !.cmd = "removeos", !.pc = "loop",
                                       !.todo = mentions]]
    /\ UNCHANGED <<requests, oversighters, ping_subs, clock, tz, closed, sub, rem, hist>>

\* one turn of the for loop: await add_oversighter(m.id) or await
\* remove_oversighter(m.id); after the last mention the reply
MsgOsLoop(u) ==
    /\ cl[u].pc = "loop"
    /\ WriteLockFree
    /\ oversighters' = IF cl[u].cmd = "addos"
                       THEN add_oversighter(oversighters, Head(cl[u].todo))
                       ELSE remove_oversighter(oversighters, Head(cl[u].todo))
    /\ cl' = [cl EXCEPT ![u] =
                [@ EXCEPT !.todo = Tail(@), !.wrote = TRUE,
                          !.changed = @ \/ oversighters' # oversighters,
                          !.pc = IF Tail(cl[u].todo) = <<>> THEN "reply" ELSE "loop",
                          !.out = IF Tail(cl[u].todo) # <<>> THEN "none"
                                  ELSE IF cl[u].cmd = "addos" THEN "added_oversighters"
                                  ELSE "removed_oversighters"]]
    /\ UNCHANGED <<requests, ping_subs, clock, tz, closed, sub, rem, hist>>

\* a subscribe that takes a member out again
add_ping_sub_Toggle(set, user_id) ==
    IF user_id \in set THEN set \ {user_id} ELSE set \cup {user_id}

\* INSERT OR IGNORE INTO ping_subscribers (user_id PRIMARY KEY)
add_ping_sub(set, user_id) == IF user_id \in set THEN set ELSE set \cup {user_id}

\* DELETE FROM ping_subscribers WHERE user_id = ?
remove_ping_sub(set, user_id) == {x \in set : x # user_id}

\* "Only Oversighters may toggle pings": the table or the role
PingAllowed(user_id) == is_oversighter(user_id) \/ user_id \in RoleHolders

\* the third word of "!oversightbot ping ..."
PingArgs == {"on", "off", "other"}

\* "!oversightbot ping on|off"
MsgPing(u, arg) ==
    /\ ~closed
    /\ cl[u].pc = "idle"
    /\ PingAllowed(u) /\ arg \in {"on", "off"} => WriteLockFree
    /\ IF ~PingAllowed(u)
       THEN /\ cl' = [cl EXCEPT ![u] =
                        [IdleClaim EXCEPT !.cmd = "ping", !.pc = "reply",
                                          !.out = "only_oversighters_ping"]]
            /\ UNCHANGED ping_subs
       ELSE IF arg \notin {"on", "off"}
       THEN /\ cl' = [cl EXCEPT ![u] =
                        [IdleClaim EXCEPT !.cmd = "ping", !.pc = "reply",
                                          !.out = "usage_ping"]]
            /\ UNCHANGED ping_subs
       ELSE /\ ping_subs' = IF arg = "on" THEN add_ping_sub(ping_subs, u)
                            ELSE remove_ping_sub(ping_subs, u)
            /\ cl' = [cl EXCEPT ![u] =
                        [IdleClaim EXCEPT !.cmd = "ping", !.pc = "reply", !.wrote = TRUE,
                            !.changed = ping_subs' # ping_subs,
                            !.out = IF arg = "on" THEN "ping_enabled" ELSE "ping_disabled"]]
    /\ UNCHANGED <<requests, oversighters, clock, tz, closed, sub, rem, hist>>

\* claim_request called directly on the store
StoreClaim(row_id, claimer_id) ==
    /\ Len(hist.crLog) < MaxStoreCalls
    /\ WriteLockFree
    /\ requests' = ClaimUpdate(requests, row_id, claimer_id, now_utc)
    /\ hist' = [hist EXCEPT !.crLog =
                   Append(@, [row |-> row_id, by |-> claimer_id,
                              existed |-> row_id \in DOMAIN requests,
                              ok |-> ClaimRowcount(requests, row_id) = 1])]
    /\ UNCHANGED <<oversighters, ping_subs, clock, tz, closed, sub, cl, rem>>

(* ---------------------------- reminder_loop ---------------------------- *)
\* the table with the transaction's UPDATEs of reminded_at applied
ApplyReminded(reqs, txn) ==
    [i \in DOMAIN reqs |->
        IF \E k \in DOMAIN txn : txn[k][1] = i
        THEN [reqs[i] EXCEPT !.reminded_at =
                 txn[CHOOSE k \in DOMAIN txn :
                        txn[k][1] = i /\ \A j \in DOMAIN txn : txn[j][1] = i => j <= k][2]]
        ELSE reqs[i]]

\* the rows of the SELECT of one pass
ReminderRows(reqs, cutoff_ts) ==
    SortAsc({i \in DOMAIN reqs : ReminderWhere(reqs[i], cutoff_ts)})

\* while not bot.is_closed(): cutoff_ts, the SELECT and fetchall
RemScan ==
    /\ rem.pc = "scan"
    /\ LET cutoff_ts == now_naive - REMINDER_MINUTES * 60
           rows == ReminderRows(requests, cutoff_ts)
       IN rem' = IF closed
                 THEN [rem EXCEPT !.pc = "stopped"]
                 ELSE [rem EXCEPT !.rows = rows,
                                  !.pc = IF rows = <<>> THEN "commit" ELSE "fetch_user"]
    /\ UNCHANGED <<requests, oversighters, ping_subs, clock, tz, closed, sub, cl, hist>>

\* author = await bot.fetch_user(row["author_id"]) returns
RemFetchUser ==
    /\ rem.pc = "fetch_user"
    /\ rem' = [rem EXCEPT !.pc = "send"]
    /\ UNCHANGED <<requests, oversighters, ping_subs, clock, tz, closed, sub, cl, hist>>

\* an exception that leaves the loop: the connection is closed without a
\* commit (its UPDATEs are rolled back) and the task ends; rows keeps the
\* rows of the pass that were not yet marked
RemDie(err) == [rem EXCEPT !.pc = "dead", !.txn = <<>>, !.err = err]

\* bot.fetch_user raises (discord.NotFound, discord.HTTPException): it is
\* outside the try of author.send
RemFetchUserFail ==
    /\ rem.pc = "fetch_user"
    /\ rem' = RemDie("fetch_user")
    /\ UNCHANGED <<requests, oversighters, ping_subs, clock, tz, closed, sub, cl, hist>>

\* await author.send(msg) and notify_restricted return
RemSend ==
    /\ rem.pc = "send"
    /\ hist' = [hist EXCEPT !.delivered[Head(rem.rows)] = @ + 1]
    /\ rem' = [rem EXCEPT !.pc = "update"]
    /\ UNCHANGED <<requests, oversighters, ping_subs, clock, tz, closed, sub, cl>>

\* author.send raises discord.HTTPException, which is caught and passed:
\* the loop goes on as after a send that returned
RemSendFail ==
    /\ rem.pc = "send"
    /\ hist' = [hist EXCEPT !.delivered[Head(rem.rows)] = @ + 1]
    /\ rem' = [rem EXCEPT !.pc = "update"]
    /\ UNCHANGED <<requests, oversighters, ping_subs, clock, tz, closed, sub, cl>>

\* UPDATE requests SET reminded_at = ? WHERE id = ? inside the open
\* transaction of the pass
RemUpdate ==
    /\ rem.pc = "update"
    /\ rem' = [rem EXCEPT !.txn = Append(@, <<Head(rem.rows), now_naive>>),
                          !.rows = Tail(@),
                          !.pc = IF Tail(rem.rows) = <<>> THEN "commit" ELSE "fetch_user"]
    /\ UNCHANGED <<requests, oversighters, ping_subs, clock, tz, closed, sub, cl, hist>>

\* a db.execute of the pass raises (sqlite3.OperationalError)
RemStorageFail ==
    /\ rem.pc = "update" \/ (rem.pc = "scan" /\ ~closed)
    /\ rem' = RemDie("storage")
    /\ UNCHANGED <<requests, oversighters, ping_subs, clock, tz, closed, sub, cl, hist>>

\* the pass ending without its commit
RemCommit_NoCommit ==
    /\ rem.pc = "commit"
    /\ rem' = [rem EXCEPT !.txn = <<>>, !.pc = "sleep", !.wake = clock + SLEEP_SECONDS]
    /\ UNCHANGED <<requests, oversighters, ping_subs, clock, tz, closed, sub, cl, hist>>

\* await db.commit(), then asyncio.sleep(60) starts
RemCommit ==
    /\ rem.pc = "commit"
    /\ requests' = ApplyReminded(requests, rem.txn)
    /\ rem' = [rem EXCEPT !.txn = <<>>, !.pc = "sleep", !.wake = clock + SLEEP_SECONDS]
    /\ UNCHANGED <<oversighters, ping_subs, clock, tz, closed, sub, cl, hist>>

\* asyncio.sleep(60) returns
RemWake ==
    /\ rem.pc = "sleep"
    /\ clock >= rem.wake
    /\ rem' = [rem EXCEPT !.pc = "scan"]
    /\ UNCHANGED <<requests, oversighters, ping_subs, clock, tz, closed, sub, cl, hist>>

\* bot.close()
Close ==
    /\ ~closed
    /\ closed' = TRUE
    /\ UNCHANGED <<requests, oversighters, ping_subs, clock, tz, sub, cl, rem, hist>>

(* --------------------------- specifications ---------------------------- *)
\* the commands of reviewers 2 and 3 on the tickets filed by user 4
Next ==
    \/ SubmitCheck(1, 4)
    \/ SubmitCount(1)
    \/ SubmitInsert(1)
    \/ SubmitReturn(1)
    \/ \E u \in RoleHolders : Pending(u)
    \/ \E u \in RoleHolders, e \in ClaimIds : ClaimStart(u, e)
    \/ \E u \in RoleHolders : ClaimFetch(u)
    \/ \E u \in RoleHolders : ClaimTry(u)
    \/ \E u \in RoleHolders : ClaimRefetch(u)
    \/ \E u \in RoleHolders : ClaimReturn(u)

Spec == Init /\ [][Next]_vars

\* the reminder loop beside the tickets filed by user 4, until shutdown
NextRemind ==
    \/ Tick
    \/ SubmitCheck(1, 4)
    \/ SubmitCount(1)
    \/ SubmitInsert(1)
    \/ SubmitReturn(1)
    \/ RemScan
    \/ RemFetchUser
    \/ RemFetchUserFail
    \/ RemSend
    \/ RemSendFail
    \/ RemUpdate
    \/ RemStorageFail
    \/ RemCommit
    \/ RemWake
    \/ Close

SpecRemind == Init /\ [][NextRemind]_vars

\* the reminder loop beside the tickets filed by user 4 and the Claim
\* button pressed by reviewer 2
NextRace ==
    \/ Tick
    \/ SubmitCheck(1, 4)
    \/ SubmitCount(1)
    \/ SubmitInsert(1)
    \/ SubmitReturn(1)
    \/ \E r \in RowIds : ButtonClaim(2, r)
    \/ ClaimReturn(2)
    \/ RemScan
    \/ RemFetchUser
    \/ RemFetchUserFail
    \/ RemSend
    \/ RemSendFail
    \/ RemUpdate
    \/ RemStorageFail
    \/ RemCommit
    \/ RemWake

SpecRace == Init /\ [][NextRace]_vars

\* the store alone: create_request and claim_request called directly
NextStore ==
    \/ SubmitCheck(1, 4)
    \/ SubmitCount(1)
    \/ SubmitInsert(1)
    \/ SubmitReturn(1)
    \/ \E r \in StoreRows, u \in RoleHolders : StoreClaim(r, u)

SpecStore == Init /\ [][NextStore]_vars

\* /oversight under the rate limit: user 4 (who may be made an Oversighter)
\* and the bot admin submit
NextSubmit ==
    \/ Tick
    \/ \E s \in SubmitSlots, u \in {1, 4} : SubmitCheck(s, u)
    \/ \E s \in SubmitSlots : SubmitCount(s)
    \/ \E s \in SubmitSlots : SubmitInsert(s)
    \/ \E s \in SubmitSlots : SubmitReturn(s)
    \/ AddOs(1, 4)
    \/ RemoveOs(1, 4)

SpecSubmit == Init /\ [][NextSubmit]_vars

\* every command and the Claim button used by user 4, whom the admin puts
\* into and takes out of the oversighters table, beside the /claim of the
\* admin (who is in no table and holds no role) and the Claim button pressed
\* by role holder 2
NextAuth ==
    \/ SubmitCheck(1, 4)
    \/ SubmitCount(1)
    \/ SubmitInsert(1)
    \/ SubmitReturn(1)
    \/ AddOs(1, 4)
    \/ RemoveOs(1, 4)
    \/ Pending(4)
    \/ \E e \in ClaimIds : Respond(4, e)
    \/ \E e \in ClaimIds : ClaimStart(4, e)
    \/ ClaimStartAll(4)
    \/ ClaimFetch(4)
    \/ ClaimTry(4)
    \/ ClaimRefetch(4)
    \/ ClaimNext(4)
    \/ \E r \in RowIds : ButtonClaim(4, r)
    \/ \E e \in ClaimIds : ClaimStart(1, e)
    \/ \E r \in RowIds : ButtonClaim(2, r)
    \/ \E u \in {1, 2, 4} : ClaimReturn(u)

SpecAuth == Init /\ [][NextAuth]_vars

\* the message commands of the restricted channel sent by the bot admin, by
\* role holder 2 and by user 4, beside the tickets filed by user 4
MsgUsers == {1, 2, 4}

NextAdmin ==
    \/ SubmitCheck(1, 4)
    \/ SubmitCount(1)
    \/ SubmitInsert(1)
    \/ SubmitReturn(1)
    \/ \E u \in MsgUsers, m \in Mentions : MsgAddOs(u, m)
    \/ \E u \in MsgUsers, m \in Mentions : MsgRemoveOs(u, m)
    \/ \E u \in MsgUsers : MsgOsLoop(u)
    \/ \E u \in MsgUsers, a \in PingArgs : MsgPing(u, a)
    \/ \E u \in MsgUsers : ClaimReturn(u)

SpecAdmin == Init /\ [][NextAdmin]_vars

\* /claim without an id by reviewer 2, beside the tickets filed by user 4
\* and the Claim button pressed by reviewer 3
NextBulk ==
    \/ SubmitCheck(1, 4)
    \/ SubmitCount(1)
    \/ SubmitInsert(1)
    \/ SubmitReturn(1)
    \/ ClaimStartAll(2)
    \/ ClaimFetch(2)
    \/ ClaimTry(2)
    \/ ClaimRefetch(2)
    \/ ClaimNext(2)
    \/ \E r \in RowIds : ButtonClaim(3, r)
    \/ \E u \in RoleHolders : ClaimReturn(u)

SpecBulk == Init /\ [][NextBulk]_vars

\* every way to claim, on the tickets filed by user 4: /claim with and
\* without an id and /respond by reviewer 2, the Claim button pressed by
\* reviewer 3, and one pass of the reminder loop, after which the clock
\* advances once
NextClaims ==
    \/ clock = 0 /\ rem.pc = "sleep" /\ Tick
    \/ SubmitCheck(1, 4)
    \/ SubmitCount(1)
    \/ SubmitInsert(1)
    \/ SubmitReturn(1)
    \/ \E e \in ClaimIds : ClaimStart(2, e)
    \/ ClaimStartAll(2)
    \/ ClaimFetch(2)
    \/ ClaimTry(2)
    \/ ClaimRefetch(2)
    \/ ClaimNext(2)
    \/ \E e \in ClaimIds : Respond(2, e)
    \/ \E r \in RowIds : ButtonClaim(3, r)
    \/ \E u \in RoleHolders : ClaimReturn(u)
    \/ RemScan
    \/ RemFetchUser
    \/ RemSend
    \/ RemUpdate
    \/ RemCommit

SpecClaims == Init /\ [][NextClaims]_vars

\* concurrent /oversight handlers of user 4, who is in no table; the table
\* has room for the one row more that the handlers may add between them
NextRateRace ==
    \/ Tick
    \/ \E s \in SubmitSlots : SubmitCheck(s, 4)
    \/ \E s \in SubmitSlots : SubmitCount(s)
    \/ \E s \in SubmitSlots : SubmitInsertUpTo(s, MaxTickets + 1)
    \/ \E s \in SubmitSlots : SubmitReturn(s)

SpecRateRace == Init /\ [][NextRateRace]_vars

\* the values of the request_id argument: zero, the two ids at and below
\* the offset, the ids of the rows the table may hold and one id past them
ExtIds == {0, ID_OFFSET - 1, ID_OFFSET} \cup {row_to_ext_id(r) : r \in 1..(MaxTickets + 1)}

\* /claim and /respond of reviewer 2 with every request_id, and /claim
\* without one, on the tickets filed by user 4
NextIds ==
    \/ SubmitCheck(1, 4)
    \/ SubmitCount(1)
    \/ SubmitInsert(1)
    \/ SubmitReturn(1)
    \/ \E e \in ExtIds : ClaimStart(2, e)
    \/ \E e \in ExtIds : Respond(2, e)
    \/ ClaimStartAll(2)
    \/ ClaimFetch(2)
    \/ ClaimTry(2)
    \/ ClaimRefetch(2)
    \/ ClaimNext(2)
    \/ ClaimReturn(2)

SpecIds == Init /\ [][NextIds]_vars

(* ------------------------------- claims -------------------------------- *)
\* the tickets of author u created at or after window_ts
TicketsSince(u, window_ts) ==
    {i \in DOMAIN requests :
        requests[i].author_id = u /\ requests[i].created_at >= window_ts}

\* C1: of the claim_request calls made on the store, a call returns true iff
\* its row existed and no earlier call on that row returned true; a row is
\* claimed iff some call on it returned true, and then by that call's claimer.
C1_StoreClaimExactlyOnce ==
    /\ \A k \in DOMAIN hist.crLog :
          hist.crLog[k].ok <=>
             /\ hist.crLog[k].existed
             /\ \A j \in 1..(k - 1) :
                   hist.crLog[j].row = hist.crLog[k].row => ~hist.crLog[j].ok
    /\ \A r \in DOMAIN requests :
          /\ requests[r].claimed_by # NULL =>
                \E k \in DOMAIN hist.crLog :
                   /\ hist.crLog[k].row = r
                   /\ hist.crLog[k].ok
                   /\ hist.crLog[k].by = requests[r].claimed_by
          /\ requests[r].claimed_by = NULL =>
                \A k \in DOMAIN hist.crLog : hist.crLog[k].row = r => ~hist.crLog[k].ok

\* two calls on one existing row, the first true and the second false, and
\* a call on a row that did not exist
C1_Witness ==
    \E j, k, m \in DOMAIN hist.crLog :
        /\ j < k
        /\ hist.crLog[j].row = hist.crLog[k].row
        /\ hist.crLog[j].by # hist.crLog[k].by
        /\ hist.crLog[j].ok
        /\ ~hist.crLog[k].ok
        /\ ~hist.crLog[m].existed

\* C2: of the single-ID claim commands on one ticket at most one is told it
\* claimed the ticket, the one told so is the ticket's claimed_by, and an
\* "already claimed" reply names the ticket's claimed_by.
C2_OneClaimCommandSucceeds ==
    /\ \A r \in RowIds : Cardinality(hist.told[r]) <= 1
    /\ \A u \in Users :
          cl[u].pc = "reply" /\ cl[u].out = "claimed" =>
             /\ cl[u].row \in DOMAIN requests
             /\ requests[cl[u].row].claimed_by = u
    /\ \A u \in Users :
          cl[u].pc = "reply" /\ cl[u].out = "already_claimed" =>
             /\ cl[u].row \in DOMAIN requests
             /\ cl[u].claimant = requests[cl[u].row].claimed_by

\* C3: a committed reminded_at is never changed by any step.
C3_RemindedAtSetOnce ==
    [][\A r \in DOMAIN requests :
          requests[r].reminded_at # NULL =>
             requests'[r].reminded_at = requests[r].reminded_at]_vars

\* a reminded ticket while a later pass is about to commit
C3_Witness ==
    /\ rem.pc = "commit"
    /\ \E r \in DOMAIN requests : requests[r].reminded_at # NULL

\* C4: the reminder is sent only for, and reminded_at is set only on, a
\* ticket whose claimed_by is NULL at that moment.
C4_ClaimedNeverReminded ==
    [][\A r \in DOMAIN requests :
          /\ hist'.delivered[r] > hist.delivered[r] => requests[r].claimed_by = NULL
          /\ (requests[r].reminded_at = NULL /\ requests'[r].reminded_at # NULL) =>
                requests[r].claimed_by = NULL]_vars

\* C5: the count step of a submit rejects iff at least 2 tickets of the
\* author were created at or after now - COOLDOWN_SECONDS, and admits to the
\* INSERT otherwise.
C5_RateLimitWindow ==
    [][\A s \in SubmitSlots :
          (sub[s].pc = "count" /\ sub'[s].pc # "count") =>
             LET n == Cardinality(TicketsSince(sub[s].user, clock - COOLDOWN_SECONDS))
             IN /\ (sub'[s].pc = "reply" /\ sub'[s].out = "rate_limit_exceeded") <=> n >= 2
                /\ sub'[s].pc = "insert" <=> n < 2]_vars

\* a rejected submit one of whose two counted tickets is exactly
\* COOLDOWN_SECONDS old
C5_Witness ==
    \E s \in SubmitSlots :
        /\ sub[s].pc = "reply"
        /\ sub[s].out = "rate_limit_exceeded"
        /\ sub[s].cnt = 2
        /\ \E i \in DOMAIN requests :
              /\ requests[i].author_id = sub[s].user
              /\ requests[i].created_at = clock - COOLDOWN_SECONDS

\* C6: a submit entered by a bot admin or by a member of the oversighters
\* table goes straight to the INSERT; for such a submit no count is computed
\* and no rate_limit_exceeded reply is sent.
C6_ExemptNeverLimited ==
    /\ [][\A s \in SubmitSlots :
             (sub[s].pc = "idle" /\ sub'[s].pc # "idle"
                 /\ (sub'[s].user \in BOT_ADMINS \/ sub'[s].user \in oversighters)) =>
                (sub'[s].pc = "insert" /\ sub'[s].exempt)]_vars
    /\ [](\A s \in SubmitSlots :
             sub[s].exempt =>
                /\ sub[s].cnt = -1
                /\ sub[s].pc \in {"insert", "reply"}
                /\ sub[s].out # "rate_limit_exceeded")

\* an Oversighter who is no admin, admitted to the INSERT with 2 tickets of
\* theirs inside the window
C6_Witness ==
    \E s \in SubmitSlots :
        /\ sub[s].pc = "insert"
        /\ sub[s].exempt
        /\ sub[s].user \notin BOT_ADMINS
        /\ Cardinality(TicketsSince(sub[s].user, clock - COOLDOWN_SECONDS)) >= 2

\* C7: list_pending is strictly ascending and holds exactly the external
\* ids of the rows whose claimed_by is NULL; so does the reply of /pending
\* when it is computed.
C7_ListPendingExact ==
    LET ids == list_pending(requests)
    IN /\ \A i, j \in DOMAIN ids : i < j => ids[i] < ids[j]
       /\ Range(ids) = {r + ID_OFFSET : r \in {x \in DOMAIN requests :
                                                requests[x].claimed_by = NULL}}
       /\ \A u \in Users :
             cl[u].out = "unclaimed_requests" =>
                /\ \A i, j \in DOMAIN cl[u].ids : i < j => cl[u].ids[i] < cl[u].ids[j]
                /\ \A i \in DOMAIN cl[u].ids : cl[u].ids[i] - ID_OFFSET \in DOMAIN requests

\* /pending replies with the second ticket alone, the first being claimed
C7_Witness ==
    \E u \in Users :
        /\ cl[u].pc = "reply"
        /\ cl[u].out = "unclaimed_requests"
        /\ Len(requests) = 2
        /\ requests[1].claimed_by # NULL
        /\ cl[u].ids = <<2 + ID_OFFSET>>

C9_DeliveryFailureKeepsPass ==
    ~(/\ rem.pc = "dead"
      /\ rem.err = "fetch_user"
      /\ \E r \in Range(rem.rows) : requests[r].reminded_at = NULL)

\* C10: while the bot is not closed the reminder loop is never ended by an
\* error of a pass.
C10_LoopSurvivesFailedPass ==
    ~closed => rem.pc # "dead"

\* u is in the oversighters table or holds the role
IsReviewer(u) == u \in oversighters \/ u \in RoleHolders

\* C11: /claim (single or bulk), the Claim button, /respond and /pending
\* entered by an identity that is neither in the oversighters table nor a
\* role holder end in not_oversighter and leave requests as it was, and
\* entered by a reviewer they do not; a claim flow is entered only by such an
\* identity, and claimed_by is only ever set to the caller of a claim flow
\* so entered.
C11_OnlyReviewersClaim ==
    [][/\ \A u \in Users :
             (cl[u].pc = "idle" /\ cl'[u].pc # "idle"
                 /\ cl'[u].cmd \in {"claim", "claim_all", "button", "respond", "pending"}) =>
                IF IsReviewer(u)
                THEN cl'[u].out # "not_oversighter"
                ELSE /\ cl'[u].pc = "reply"
                     /\ cl'[u].out = "not_oversighter"
                     /\ requests' = requests
       /\ \A u \in Users :
             cl'[u].pc \in {"fetch", "claim", "refetch"} =>
                \/ cl[u].pc \in {"fetch", "claim", "refetch", "reply"}
                \/ cl[u].pc = "idle" /\ IsReviewer(u)
       /\ \A r \in DOMAIN requests :
             requests'[r].claimed_by # requests[r].claimed_by =>
                LET u == requests'[r].claimed_by
                IN /\ u \in Users
                   /\ \/ cl[u].pc = "claim" /\ cl[u].cmd \in {"claim", "claim_all"}
                      \/ cl[u].pc = "idle" /\ cl'[u].cmd = "button" /\ IsReviewer(u)]_vars

\* user 4 holds a ticket it claimed while in the table and has since been
\* taken out of it; the admin's /claim was turned away
C11_Witness ==
    /\ \E r \in DOMAIN requests : requests[r].claimed_by = 4
    /\ 4 \notin oversighters
    /\ cl[1].pc = "reply"
    /\ cl[1].out = "not_oversighter"
    /\ cl[4].pc = "reply"
    /\ cl[4].out = "not_oversighter"

\* C12: "addos" or "removeos" sent by an identity outside BOT_ADMINS ends in
\* the only-bot-admins reply with oversighters as it was; the loop over the
\* mentions is entered only by a bot admin, and oversighters changes only in
\* a turn of that loop, by the mention the turn is about.
C12_OnlyAdminsChangeOversighters ==
    [][/\ \A u \in Users :
             (cl[u].pc = "idle" /\ cl'[u].cmd \in {"addos", "removeos"}
                 /\ u \notin BOT_ADMINS) =>
                /\ cl'[u].pc = "reply"
                /\ cl'[u].out \in {"only_bot_admins_add", "only_bot_admins_remove"}
                /\ oversighters' = oversighters
       /\ \A u \in Users : cl'[u].pc = "loop" => u \in BOT_ADMINS
       /\ oversighters' # oversighters =>
             \E u \in BOT_ADMINS :
                /\ cl[u].pc = "loop"
                /\ \/ cl[u].cmd = "addos"
                      /\ oversighters' = oversighters \cup {Head(cl[u].todo)}
                   \/ cl[u].cmd = "removeos"
                      /\ oversighters' = oversighters \ {Head(cl[u].todo)}]_vars

\* the admin has put user 4 into the table and user 4's own "removeos" was
\* turned away
C12_Witness ==
    /\ 4 \in oversighters
    /\ cl[4].pc = "reply"
    /\ cl[4].out = "only_bot_admins_remove"
    /\ cl[1].pc = "reply"
    /\ cl[1].out = "added_oversighters"

\* C13: "ping on|off" sent by an identity that is not in the oversighters
\* table (a bot admin included) ends in the only-oversighters reply with
\* ping_subs as it was, and ping_subs changes only by the "ping" of a member
\* of the oversighters table, in that member's own membership.
C13_OnlyReviewersTogglePing ==
    [][/\ \A u \in Users :
             (cl[u].pc = "idle" /\ cl'[u].cmd = "ping" /\ u \notin oversighters) =>
                /\ cl'[u].pc = "reply"
                /\ cl'[u].out = "only_oversighters_ping"
                /\ ping_subs' = ping_subs
       /\ ping_subs' # ping_subs =>
             \E u \in Users :
                /\ cl[u].pc = "idle"
                /\ cl'[u].cmd = "ping"
                /\ u \in oversighters
                /\ ping_subs' \in {ping_subs \cup {u}, ping_subs \ {u}}]_vars

\* C14: on the tables of every reachable state, adding twice is adding once
\* and removing twice is removing once, for oversighters and for ping_subs;
\* removing a non-member leaves the table as it is; and a handler whose
\* statements changed nothing still ends in its success reply.
C14_MembershipIdempotent ==
    /\ \A u \in Users :
          /\ add_oversighter(add_oversighter(oversighters, u), u)
                = add_oversighter(oversighters, u)
          /\ remove_oversighter(remove_oversighter(oversighters, u), u)
                = remove_oversighter(oversighters, u)
          /\ add_ping_sub(add_ping_sub(ping_subs, u), u) = add_ping_sub(ping_subs, u)
          /\ remove_ping_sub(remove_ping_sub(ping_subs, u), u) = remove_ping_sub(ping_subs, u)
          /\ u \in add_oversighter(oversighters, u)
          /\ u \in add_ping_sub(ping_subs, u)
          /\ u \notin remove_oversighter(oversighters, u)
          /\ u \notin remove_ping_sub(ping_subs, u)
          /\ u \notin oversighters => remove_oversighter(oversighters, u) = oversighters
          /\ u \notin ping_subs => remove_ping_sub(ping_subs, u) = ping_subs
    /\ \A u \in Users :
          (cl[u].pc = "reply" /\ cl[u].wrote /\ ~cl[u].changed
              /\ cl[u].cmd \in {"addos", "removeos", "ping"}) =>
             cl[u].out \in {"added_oversighters", "removed_oversighters",
                            "ping_enabled", "ping_disabled"}

\* the admin added members again, and a role holder who was not subscribed
\* unsubscribed: neither changed a table, both got the success reply
C14_Witness ==
    /\ cl[1].pc = "reply"
    /\ cl[1].out = "added_oversighters"
    /\ ~cl[1].changed
    /\ oversighters = {2, 4}
    /\ cl[2].pc = "reply"
    /\ cl[2].out = "ping_disabled"
    /\ ~cl[2].changed
    /\ ping_subs = {4}

\* C15: the ids in use are exactly 1..n; ids follow creation order; the
\* tickets two submits in flight were given differ and each is the row of
\* its submitter; no step removes a row or changes the author or creation
\* time stored under an id, and a step adds at most the one id n + 1.
C15_IdsUniqueDense ==
    /\ [](/\ DOMAIN requests = 1..Len(requests)
          /\ \A i, j \in DOMAIN requests :
                i < j => requests[i].created_at <= requests[j].created_at
          /\ \A s \in SubmitSlots :
                sub[s].ticket # NULL =>
                   /\ ext_id_to_row(sub[s].ticket) \in DOMAIN requests
                   /\ requests[ext_id_to_row(sub[s].ticket)].author_id = sub[s].user
          /\ \A s, t \in SubmitSlots :
                (s # t /\ sub[s].ticket # NULL /\ sub[t].ticket # NULL) =>
                   sub[s].ticket # sub[t].ticket)
    /\ [][/\ \A r \in DOMAIN requests :
                /\ r \in DOMAIN requests'
                /\ requests'[r].author_id = requests[r].author_id
                /\ requests'[r].created_at = requests[r].created_at
          /\ DOMAIN requests' \ DOMAIN requests \subseteq {Len(requests) + 1}]_vars

\* two submits that were in flight together hold the tickets 1001 and 1002
C15_Witness ==
    /\ sub[1].pc = "reply"
    /\ sub[2].pc = "reply"
    /\ sub[1].ticket = row_to_ext_id(2)
    /\ sub[2].ticket = row_to_ext_id(1)
    /\ requests[1].author_id # requests[2].author_id

C17_RespondChangesNothing ==
    [][\A u \in Users :
          (cl[u].pc = "idle" /\ cl'[u].cmd = "respond") =>
             /\ requests' = requests
             /\ cl'[u].pc = "reply"
             /\ cl'[u].out \in {"not_oversighter", "invalid_id",
                                "unknown_request_id", "response_sent"}
             /\ cl'[u].out = "response_sent" <=> cl'[u].row \in DOMAIN requests
             /\ (cl'[u].row # NULL /\ cl'[u].row \notin DOMAIN requests) =>
                   cl'[u].out = "unknown_request_id"]_vars

\* user 4 has responded to a ticket that reviewer 2 holds
C17_Witness ==
    /\ cl[4].cmd = "respond"
    /\ cl[4].pc = "reply"
    /\ cl[4].out = "response_sent"
    /\ requests[cl[4].row].claimed_by = 2
    /\ \E r \in DOMAIN requests : requests[r].claimed_by = NULL

\* the replies that report NotAuthorized, InvalidId and UnknownTicket
ErrorReplies == {"not_oversighter", "invalid_id", "unknown_request_id",
                 "only_bot_admins_add", "only_bot_admins_remove",
                 "only_oversighters_ping"}

\* C18: a handler that reports not_oversighter, invalid_id,
\* unknown_request_id or rate_limit_exceeded has run no writing statement,
\* and the step in which it arrives at that reply leaves requests,
\* oversighters and ping_subs as they were.
C18_ErrorsChangeNothing ==
    /\ [](/\ \A u \in Users :
                cl[u].out \in ErrorReplies => ~cl[u].wrote /\ ~cl[u].changed
          /\ \A s \in SubmitSlots :
                sub[s].out = "rate_limit_exceeded" => sub[s].ticket = NULL)
    /\ [][(\/ \E u \in Users : cl'[u].out \in ErrorReplies /\ cl[u].out # cl'[u].out
           \/ \E s \in SubmitSlots :
                 sub'[s].out = "rate_limit_exceeded" /\ sub[s].out # sub'[s].out) =>
             /\ requests' = requests
             /\ oversighters' = oversighters
             /\ ping_subs' = ping_subs]_vars

\* a /claim of an id without a row, a /claim of the admin and a third
\* /oversight inside the window were all turned away
C18_Witness ==
    /\ Len(requests) = 2
    /\ sub[1].pc = "reply"
    /\ sub[1].out = "rate_limit_exceeded"
    /\ cl[4].cmd = "claim"
    /\ cl[4].out = "unknown_request_id"
    /\ cl[1].out = "not_oversighter"
    /\ cl[2].out = "claimed"

\* C19: no step changes the claimed_by or the claimed_at of a row whose
\* claimed_by is set, and the step that sets claimed_by sets claimed_at with
\* it.
C19_ClaimWrittenOnce ==
    [][\A r \in DOMAIN requests :
          /\ requests[r].claimed_by # NULL =>
                /\ requests'[r].claimed_by = requests[r].claimed_by
                /\ requests'[r].claimed_at = requests[r].claimed_at
          /\ (requests[r].claimed_by = NULL /\ requests'[r].claimed_by # NULL) =>
                requests'[r].claimed_at = clock]_vars

\* ticket 1, claimed by reviewer 3 at time 0 and marked by the reminder
\* pass, was later named in a /claim of reviewer 2 that found it claimed
C19_Witness ==
    /\ clock > 0
    /\ Len(requests) >= 1
    /\ requests[1].claimed_by = 3
    /\ requests[1].claimed_at = 0
    /\ requests[1].reminded_at # NULL
    /\ cl[2].cmd \in {"claim", "claim_all"}
    /\ cl[2].row = 1
    /\ cl[2].pc = "reply"
    /\ cl[2].out = "already_claimed"

\* C20: in every row claimed_by is NULL iff claimed_at is NULL, and a row
\* enters the table with claimed_by, claimed_at and reminded_at all NULL.
C20_ClaimedByIffClaimedAt ==
    /\ [](\A r \in DOMAIN requests :
             requests[r].claimed_by = NULL <=> requests[r].claimed_at = NULL)
    /\ [][\A r \in DOMAIN requests' \ DOMAIN requests :
             /\ requests'[r].claimed_by = NULL
             /\ requests'[r].claimed_at = NULL
             /\ requests'[r].reminded_at = NULL]_vars

\* a claimed ticket beside a ticket just filed
C20_Witness ==
    /\ Len(requests) = 2
    /\ requests[1].claimed_by # NULL
    /\ requests[1].claimed_at # NULL
    /\ requests[2].claimed_by = NULL
    /\ requests[2].claimed_at = NULL
    /\ sub[1].pc = "reply"
    /\ sub[1].ticket = row_to_ext_id(2)

\* C21: a pass that starts at true UTC time now selects exactly the tickets
\* with claimed_by NULL, reminded_at NULL and created_at < now -
\* REMINDER_MINUTES * 60, created_at and now being seconds of the same UTC
\* clock.
C21_ReminderSelectsByUtcAge ==
    [][rem.pc = "scan" /\ rem'.pc \in {"fetch_user", "commit"} =>
          Range(rem'.rows) =
             {i \in DOMAIN requests :
                 /\ requests[i].claimed_by = NULL
                 /\ requests[i].reminded_at = NULL
                 /\ requests[i].created_at < now_utc - REMINDER_MINUTES * 60}]_vars

\* C22: a reminded ticket that is still unclaimed is in the list the bulk
\* /claim takes from list_pending, and a claim_request on an unclaimed
\* ticket, reminded or not, succeeds for the command and for the button and
\* changes claimed_by and claimed_at only (reminded_at stays).
C22_RemindedStaysClaimable ==
    [][/\ \A u \in Users :
             (cl[u].pc = "idle" /\ cl'[u].cmd = "claim_all"
                 /\ cl'[u].out # "not_oversighter") =>
                \A i \in DOMAIN requests :
                   (requests[i].reminded_at # NULL /\ requests[i].claimed_by = NULL) =>
                      row_to_ext_id(i) \in Range(cl'[u].ids)
       /\ \A u \in Users :
             (cl[u].pc = "claim" /\ cl'[u].pc # "claim"
                 /\ requests[cl[u].row].claimed_by = NULL) =>
                /\ cl'[u].success
                /\ requests' = [requests EXCEPT ![cl[u].row].claimed_by = u,
                                                ![cl[u].row].claimed_at = now_utc]
       /\ \A u \in Users :
             (cl[u].pc = "idle" /\ cl'[u].cmd = "button"
                 /\ cl'[u].out # "not_oversighter"
                 /\ requests[cl'[u].row].claimed_by = NULL) =>
                /\ cl'[u].success
                /\ requests' = [requests EXCEPT ![cl'[u].row].claimed_by = u,
                                                ![cl'[u].row].claimed_at = now_utc]]_vars

\* a ticket reminded by the pass and claimed by /claim after the clock moved on
C22_Witness ==
    \E r \in DOMAIN requests :
        /\ requests[r].reminded_at # NULL
        /\ requests[r].claimed_by = 2
        /\ requests[r].claimed_at = TickSeconds
        /\ cl[2].pc = "reply"
        /\ cl[2].out = "claimed"
        /\ cl[2].row = r

\* C23: an author who is in neither BOT_ADMINS nor the oversighters table has
\* at most 2 tickets whose created_at lie in one window of COOLDOWN_SECONDS
\* (the window that ends at the created_at of any of the tickets).
C23_RateLimitUnderRace ==
    \A u \in Users \ (BOT_ADMINS \cup oversighters) :
       \A i \in DOMAIN requests :
          Cardinality({j \in DOMAIN requests :
                          /\ requests[j].author_id = u
                          /\ requests[j].created_at >=
                                requests[i].created_at - COOLDOWN_SECONDS
                          /\ requests[j].created_at <= requests[i].created_at}) <= 2

\* C24: the author of a ticket is sent request_claimed_notification by at
\* most one claim command, and only by the command of the ticket's claimed_by.
C24_AuthorNotifiedOnce ==
    \A r \in RowIds :
       /\ Cardinality(hist.notified[r]) <= 1
       /\ \A u \in hist.notified[r] :
             r \in DOMAIN requests /\ requests[r].claimed_by = u

\* C25: once a pass has ended, by its commit or by the error of resolving the
\* author of a later ticket, every ticket the reminder was sent for has a
\* committed reminded_at.
C25_DeliveredIsMarked ==
    (rem.pc \in {"sleep", "scan", "stopped"} \/ (rem.pc = "dead" /\ rem.err = "fetch_user")) =>
       \A r \in DOMAIN requests :
          hist.delivered[r] > 0 => requests[r].reminded_at # NULL

\* C26: every ping subscriber is a reviewer (in the oversighters table or
\* holding the role), and so is everyone mentioned when a new request is
\* posted.
C26_SubscribersAreReviewers ==
    /\ [](\A u \in ping_subs : IsReviewer(u))
    /\ [][(\E s \in SubmitSlots :
              sub[s].pc = "reply" /\ sub[s].out = "request_filed" /\ sub'[s].pc = "idle") =>
             \A u \in hist'.pinged : IsReviewer(u)]_vars

\* C27: when a reviewer has claimed a ticket, by the Claim button as by the
\* single-ID /claim, the ticket's claimed_by is the reviewer and the author
\* has been sent request_claimed_notification for it.
C27_ButtonSameAsCommand ==
    \A u \in Users :
       (cl[u].pc = "reply" /\ cl[u].cmd \in {"claim", "button"}
           /\ cl[u].out = "claimed" /\ cl[u].success) =>
          /\ requests[cl[u].row].claimed_by = u
          /\ u \in hist.notified[cl[u].row]

====
